---- MODULE Spec2Model ----
(***************************************************************************)
(* Controller streaming API (controller-grpc/controller.go): the shared    *)
(* event listener, the per-request EventListener handle built by           *)
(* subscribeEvents with its forwarder goroutines, and the handlers that    *)
(* wait on it: StreamApps, StreamScales, StreamReleases,                   *)
(* StreamDeployments, createScale and CreateDeployment.                    *)
(*                                                                         *)
(* The data package (data.EventListener, data.EventSubscriber, the repos)  *)
(* is not part of controller.go; the bus below follows section 4.4 of the  *)
(* specification.  Requests are taken without label or type filters.       *)
(*                                                                         *)
(* Modelled on their own, with variables of their own: concurrent callers  *)
(* of maybeStartEventListener, a client paging through StreamReleases,     *)
(* listApps filling a page of apps, and UpdateApp.                         *)
(***************************************************************************)
EXTENDS Naturals, Sequences, FiniteSets

\* ------------------------------------------------------------------ bounds
MaxEvents == 2
QueueCap == 1

\* --------------------------------------------------------------- universe
Apps == {"a1", "a2"}
Ops == {"create", "update"}
StreamRPCs == {"apps", "scales", "releases", "deployments"}
\* the ids of the row the handler inserts and of a foreign row
MyID == "r1"
OtherID == "r2"
\* the app the synchronous RPCs (createScale, CreateDeployment) act on
MyApp == "a1"

VARIABLES
  log,        \* the change log: events in the order they became visible
  tail,       \* c.eventListener: "nil", "live" or "closed"
  subs,       \* bus subscribers created so far, in creation order
  fwd,        \* forwarder goroutine of each subscriber: [pc, ev]
  hSubs,      \* EventListener.subs: indices into subs
  hErr,       \* EventListener.Err
  hClosed,    \* whether the channel EventListener.Events is closed
  hasHandle,  \* subscribeEvents returned a handle and its Close is deferred
  req,        \* the request: [rpc, creates, updates, apps, scale, rels,
              \* scaleIds], the last three being its name filters
  pc,         \* position of the handler
  si,         \* subscribeEvents: index of the next app id to subscribe
  hev,        \* the event the handler received and is processing
  currID,     \* the handler's watermark
  snap,       \* the snapshot: [read, ids]
  sent,       \* responses sent on the client stream, in order
  ret,        \* the handler's return value
  cancelled,  \* the client cancelled the RPC
  scaleReq,   \* createScale: the local ct.ScaleRequest
  inserted,   \* the row of the synchronous RPC is in the repo
  procd,      \* CreateDeployment: events taken from the handle, in order
  scaleCalls, \* CreateDeployment: embedded createScale calls issued
  mtx,        \* c.eventListenerMtx: 0, or the caller that holds it
  tails,      \* every data.EventListener created so far: its state
  cur,        \* c.eventListener: 0 for nil, or an index into tails
  cpc,        \* position of each caller of maybeStartEventListener
  centry,     \* how many tails existed when each caller made its call
  handed,     \* what maybeStartEventListener returned, call after call
  ncalls,     \* calls of maybeStartEventListener begun
  psize,      \* the page_size of a paged request
  nrel,       \* StreamReleases paging: release events in the log, ids 1..nrel
  ptok,       \* the BeforeID of the page token of the next request, 0 if none
  more,       \* the client has a page left to ask for
  pages,      \* the snapshot responses received, page after page
  rows,       \* listApps: per app of the repo, whether it passes the filters
  failAt,     \* listApps: the appRepo.ListPage call that fails, 0 for none
  listed,     \* listApps: what the outermost call returned
  upd,        \* UpdateApp: the request, req.App and req.UpdateMask
  wrote       \* UpdateApp: the data handed to appRepo.Update

\* the singleton of the tail seen by concurrent callers
startVars == <<mtx, tails, cur, cpc, centry, handed, ncalls>>

\* a client paging through StreamReleases; listApps building one page
pageVars == <<psize, nrel, ptok, more, pages>>
listVars == <<rows, failAt, listed>>

\* an UpdateApp request
updVars == <<upd, wrote>>

sideVars == <<startVars, pageVars, listVars, updVars>>

mainVars == <<log, tail, subs, fwd, hSubs, hErr, hClosed, hasHandle, req, pc,
              si, hev, currID, snap, sent, ret, cancelled, scaleReq, inserted,
              procd, scaleCalls>>

vars == <<mainVars, sideVars>>

busVars == <<log, tail, subs, fwd>>
handleVars == <<hSubs, hErr, hClosed, hasHandle>>
syncVars == <<scaleReq, inserted, procd, scaleCalls>>

\* ------------------------------------------------------------------ errors
NoErr == "nil"
\* errors.New / fmt.Errorf: an error that carries no gRPC status
GoError(msg) == [code |-> "Unknown", msg |-> msg, state |-> ""]
\* utils.ConvertError(err, err.Error())
ConvertError(err) == [code |-> "Unavailable", msg |-> err, state |-> ""]
\* a bus error returned as it is
RawError(err) == [code |-> "Unknown", msg |-> err, state |-> ""]
Success == [code |-> "OK", msg |-> "", state |-> ""]
\* utils.ConvertScaleRequest(r) returned with a nil error
ScaleResult(r) == [code |-> "OK", msg |-> "", state |-> r.state]
NotReturned == [code |-> "none", msg |-> "", state |-> ""]

\* ------------------------------------------------------------------ events
NoEvent == [id |-> 0, app |-> "", type |-> "", oid |-> "", op |-> "",
            ok |-> TRUE, st |-> "", rel |-> ""]

EventType(rpc) ==
  CASE rpc = "apps" -> "app"
    [] rpc = "scales" -> "scale_request"
    [] rpc = "releases" -> "release"
    [] rpc = "deployments" -> "deployment"
    [] rpc = "createScale" -> "scale_request"
    [] rpc = "createDeployment" -> "deployment"

Max(S) == IF S = {} THEN 0 ELSE CHOOSE m \in S : \A n \in S : n <= m

Range(s) == {s[i] : i \in 1..Len(s)}

\* ------------------------------------------------------- the event bus
\* section 4.4, filtering correctness
Matches(e, s) ==
  /\ (s.app = "" \/ e.app = s.app)
  /\ e.type \in s.types
  /\ (s.oids = {} \/ e.oid \in s.oids)

\* the bus hands e to subscriber s: queued, or s is dropped as a slow consumer
Notify(s, e) ==
  IF s.closed \/ ~Matches(e, s) THEN s
  ELSE IF Len(s.queue) >= QueueCap
       THEN [s EXCEPT !.closed = TRUE, !.err = "SlowConsumer"]
       ELSE [s EXCEPT !.queue = Append(@, e), !.seen = Append(@, e.id)]

\* a change becomes visible: it is appended to the log and, while the tail
\* is listening, multiplexed to every open subscriber
Emit(e) ==
  LET ev == [e EXCEPT !.id = Len(log) + 1] IN
  /\ log' = Append(log, ev)
  /\ subs' = IF tail = "live"
             THEN [i \in 1..Len(subs) |-> Notify(subs[i], ev)]
             ELSE subs

\* the tail dies: every live subscriber is closed with the cause
TailDies ==
  /\ tail = "live"
  /\ tail' = "closed"
  /\ subs' = [i \in 1..Len(subs) |->
               IF subs[i].closed THEN subs[i]
               ELSE [subs[i] EXCEPT !.closed = TRUE, !.err = "TailDied"]]
  /\ UNCHANGED <<log, fwd, handleVars, req, sideVars, pc, si, hev, currID,
                 snap, sent, ret, cancelled, syncVars>>

\* EventSubscriber.Close: idempotent, keeps the error the bus recorded
CloseSub(s) == [s EXCEPT !.closed = TRUE]

NewSub(app, types, oids) ==
  [app |-> app, types |-> types, oids |-> oids, queue |-> <<>>,
   seen |-> <<>>, closed |-> FALSE, err |-> NoErr]

\* ------------------------------------------------- the subscription handle
\* EventListener.Close: closes every sub, keeps the first error (errOnce)
FirstErr(ss) ==
  LET bad == {i \in 1..Len(ss) : subs[ss[i]].err # NoErr} IN
  IF bad = {} THEN NoErr
  ELSE subs[ss[CHOOSE i \in bad : \A j \in bad : i <= j]].err

CloseHandle ==
  /\ subs' = [i \in 1..Len(subs) |->
               IF i \in Range(hSubs) THEN CloseSub(subs[i]) ELSE subs[i]]
  /\ hErr' = IF hErr # NoErr THEN hErr ELSE FirstErr(hSubs)

\* the handler returns v; a deferred sub.Close() runs after v was evaluated
Return(v) ==
  /\ ret' = v
  /\ pc' = "done"
  /\ IF hasHandle THEN CloseHandle ELSE UNCHANGED <<subs, hErr>>

\* every call subscribes to all apps, whatever app ids it was given
WildcardAlways(appIDs) == <<"">>

\* subscribeEvents, lines 194-197
EffApps(appIDs) == IF Len(appIDs) = 0 THEN <<"">> ELSE appIDs

\* StreamScales, lines 572-578: with release ids in the name filters the
\* subscription is made for every app and every scale request
StreamAppIDs == IF req.rels # {} THEN <<>> ELSE req.apps
StreamScaleIDs == IF req.rels # {} THEN {} ELSE req.scaleIds

\* StreamScales, lines 663-690: the release, app or scale id of the scale
\* request is in its filter set, or there is no name filter at all
NameMatches(e) ==
  LET releaseIDMatches == req.rels # {} /\ e.rel \in req.rels
      appIDMatches == Len(req.apps) > 0 /\ e.app \in Range(req.apps)
      scaleIDMatches == req.scaleIds # {} /\ e.oid \in req.scaleIds
  IN \/ releaseIDMatches \/ appIDMatches \/ scaleIDMatches
     \/ ~(req.rels # {} \/ Len(req.apps) > 0 \/ req.scaleIds # {})

\* the arguments the handler passes to subscribeEvents
SubApps ==
  CASE req.rpc \in {"createScale", "createDeployment"} -> <<MyApp>>
    [] req.rpc = "scales" -> StreamAppIDs
    [] OTHER -> req.apps

SubOids ==
  CASE req.rpc = "createDeployment" -> {MyID}
    [] req.rpc = "scales" -> StreamScaleIDs
    [] OTHER -> {}

\* the forwarder goroutine, lines 206-214: take the next event of the sub
FwdRecv(i) ==
  /\ i \in 1..Len(subs)
  /\ fwd[i].pc = "recv"
  /\ IF Len(subs[i].queue) > 0
     THEN /\ fwd' = [fwd EXCEPT ![i] = [pc |-> "send", ev |-> Head(subs[i].queue)]]
          /\ subs' = [subs EXCEPT ![i].queue = Tail(@)]
     ELSE /\ subs[i].closed
          /\ fwd' = [fwd EXCEPT ![i] = [pc |-> "exit", ev |-> NoEvent]]
          /\ UNCHANGED subs
  /\ UNCHANGED <<log, tail, handleVars, req, sideVars, pc, si, hev, currID,
                 snap, sent, ret, cancelled, syncVars>>

\* forwarders blocked in eventListener.Events <- ctEvent
Sending == {i \in 1..Len(fwd) : fwd[i].pc = "send"}


\* ------------------------------------------------------- subscribeEvents
SubTypes(rpc) ==
  IF rpc = "apps" THEN {"app", "app_deletion", "app_release"}
  ELSE {EventType(rpc)}

\* where each handler starts, and where it goes once it holds a handle
Unary(r) == ~(r.creates \/ r.updates)

FirstPc(r) ==
  CASE r.rpc = "apps" -> IF Unary(r) THEN "snap" ELSE "mstart"
    [] r.rpc = "deployments" -> "snap"
    [] r.rpc = "createDeployment" -> "add"
    [] OTHER -> "mstart"

AfterSubscribe(rpc) ==
  CASE rpc \in {"apps", "scales", "releases"} -> "snap"
    [] rpc = "createScale" -> "insert"
    [] OTHER -> "wait"

\* maybeStartEventListener, lines 152-160, under eventListenerMtx: the live
\* tail is reused, otherwise a new one is stored and Listen() decides
MaybeStart ==
  /\ pc = "mstart"
  /\ \E listenOk \in BOOLEAN :
       IF tail = "live" \/ listenOk
       THEN /\ tail' = "live"
            /\ pc' = "subscribe"
            /\ UNCHANGED ret
       ELSE /\ tail' = "closed"
            /\ pc' = "done"
            /\ ret' = RawError("ListenFailed")
  /\ UNCHANGED <<log, subs, fwd, handleVars, req, sideVars, si, hev, currID,
                 snap, sent, cancelled, syncVars>>

\* one iteration of the loop of lines 199-215: Subscribe for the next app id
\* and spawn its forwarder; after the last one the handle gets its subs
SubscribeOne ==
  /\ pc = "subscribe"
  /\ LET apps == EffApps(SubApps) IN
     IF tail # "live"
     THEN /\ pc' = "done"
          /\ ret' = RawError("ListenerClosed")
          /\ UNCHANGED <<subs, fwd, hSubs, hasHandle, si>>
     ELSE /\ subs' = Append(subs, NewSub(apps[si], SubTypes(req.rpc), SubOids))
          /\ fwd' = Append(fwd, [pc |-> "recv", ev |-> NoEvent])
          /\ UNCHANGED ret
          /\ IF si = Len(apps)
             THEN /\ hSubs' = [k \in 1..Len(apps) |-> Len(subs) + 1 - Len(apps) + k]
                  /\ hasHandle' = TRUE
                  /\ si' = 1
                  /\ pc' = AfterSubscribe(req.rpc)
             ELSE /\ si' = si + 1
                  /\ UNCHANGED <<hSubs, hasHandle, pc>>
  /\ UNCHANGED <<log, tail, hErr, hClosed, req, sideVars, hev, currID, snap,
                 sent, cancelled, syncVars>>

\* ------------------------------------------------------ streaming RPCs
\* the ids of the events the snapshot of the request reflects
ReqMatches(e) ==
  /\ e.type = EventType(req.rpc)
  /\ IF req.rpc = "scales" THEN NameMatches(e)
     ELSE Len(req.apps) = 0 \/ e.app \in Range(req.apps)

SnapIds == {log[k].id : k \in {j \in 1..Len(log) : ReqMatches(log[j])}}

\* StreamReleases sets currID from the listed events (lines 837-839); the
\* other handlers leave the watermark at its zero value
SnapshotCurrID == IF req.rpc = "releases" THEN Max(SnapIds) ELSE currID

Page(ids) == [page |-> TRUE, ids |-> ids]
Single(id) == [page |-> FALSE, ids |-> {id}]

\* the historical read and the first response: refreshApps/sendResponse,
\* ListScaleRequests, LegacyListEvents, refreshDeployments
Snapshot ==
  /\ pc = "snap"
  /\ req.rpc \in StreamRPCs
  /\ \E repoOk \in BOOLEAN :
       IF ~repoOk
       THEN /\ Return(RawError("RepoError"))
            /\ UNCHANGED <<snap, currID, sent>>
       ELSE /\ snap' = [read |-> TRUE, ids |-> SnapIds]
            /\ currID' = SnapshotCurrID
            /\ sent' = Append(sent, Page(SnapIds))
            /\ IF Unary(req)
               THEN Return(Success)
               ELSE /\ pc' = IF req.rpc = "deployments" THEN "mstart" ELSE "wait"
                    /\ UNCHANGED <<ret, subs, hErr>>
  /\ UNCHANGED <<log, tail, fwd, hSubs, hClosed, hasHandle, req, sideVars, si,
                 hev, cancelled, syncVars>>

\* what each handler returns after its receive loop
AfterLoopValue ==
  CASE req.rpc = "apps" -> IF hErr # NoErr THEN ConvertError(hErr) ELSE Success
    [] req.rpc = "createScale" ->
         IF hErr # NoErr THEN ConvertError(hErr) ELSE ScaleResult(scaleReq)
    [] OTHER -> IF hErr # NoErr THEN RawError(hErr) ELSE Success

\* event, ok := <-sub.Events: a rendezvous with a forwarder blocked in its
\* send, or !ok once the channel is closed
Receive ==
  /\ pc = "wait"
  /\ IF hClosed
     THEN /\ Return(AfterLoopValue)
          /\ UNCHANGED <<fwd, hev>>
     ELSE \E i \in Sending :
            /\ hev' = fwd[i].ev
            /\ fwd' = [fwd EXCEPT ![i] = [pc |-> "recv", ev |-> NoEvent]]
            /\ pc' = "proc"
            /\ UNCHANGED <<ret, subs, hErr>>
  /\ UNCHANGED <<log, tail, hSubs, hClosed, hasHandle, req, sideVars, si,
                 currID, snap, sent, cancelled, syncVars>>

OpMatches(e) ==
  \/ req.creates /\ e.op = "create"
  \/ req.updates /\ e.op = "update"

UsesWatermark(rpc) == rpc \in {"scales", "releases"}

\* "avoid overlap between list and stream", lines 648-651 and 865-868
BelowWatermark(e) == UsesWatermark(req.rpc) /\ e.id <= currID

\* the filters of each live loop once the watermark let the event through
Accepts(e, repoOk) ==
  CASE req.rpc = "apps" -> e.type = "app" /\ e.ok /\ OpMatches(e)
    [] req.rpc = "scales" ->
         /\ OpMatches(e)
         /\ e.ok
         /\ NameMatches(e)
    [] req.rpc = "releases" -> e.ok
    [] req.rpc = "deployments" -> OpMatches(e) /\ e.ok /\ repoOk

\* one iteration of the live loop of a streaming RPC
Process ==
  /\ pc = "proc"
  /\ req.rpc \in StreamRPCs
  /\ \E repoOk \in BOOLEAN :
       /\ (req.rpc # "deployments" => repoOk)
       /\ IF BelowWatermark(hev)
          THEN UNCHANGED <<currID, sent>>
          ELSE /\ currID' = IF UsesWatermark(req.rpc) THEN hev.id ELSE currID
               /\ sent' = IF Accepts(hev, repoOk)
                          THEN Append(sent, Single(hev.id))
                          ELSE sent
  /\ hev' = NoEvent
  /\ pc' = "wait"
  /\ UNCHANGED <<busVars, handleVars, req, sideVars, si, snap, ret, cancelled,
                 syncVars>>

\* ------------------------------------------------------------ environment
\* a mutation of the kind the RPC watches becomes visible
PublishStream ==
  /\ req.rpc \in StreamRPCs
  /\ Len(log) < MaxEvents
  /\ \E app \in Apps, op \in Ops :
       Emit([NoEvent EXCEPT !.app = app, !.type = EventType(req.rpc),
                            !.oid = OtherID, !.op = op])
  /\ UNCHANGED <<tail, fwd, handleVars, req, sideVars, pc, si, hev, currID,
                 snap, sent, ret, cancelled, syncVars>>

\* the releases and scale requests the name filters of StreamScales can name
Releases == {"v1", "v2"}
ScaleIDs == {"s1", "s2"}

\* the scale requests that can be created
ScaleEvents ==
  {[NoEvent EXCEPT !.app = app, !.type = "scale_request", !.oid = oid,
                   !.rel = rel, !.op = "create"] :
     app \in Apps, rel \in Releases, oid \in ScaleIDs}

\* a scale request of some app and release is created
PublishScaleRequest ==
  /\ req.rpc = "scales"
  /\ Len(log) < MaxEvents
  /\ \E e \in ScaleEvents : Emit(e)
  /\ UNCHANGED <<tail, fwd, handleVars, req, sideVars, pc, si, hev, currID,
                 snap, sent, ret, cancelled, syncVars>>

\* the client cancels the RPC (context cancelled, transport closed)
Cancel ==
  /\ ~cancelled
  /\ pc # "done"
  /\ cancelled' = TRUE
  /\ UNCHANGED <<busVars, handleVars, req, sideVars, pc, si, hev, currID,
                 snap, sent, ret, syncVars>>

Forward == \E i \in 1..Len(subs) : FwdRecv(i)

\* ------------------------------------------------------------ createScale
ScaleStates == {"pending", "complete", "cancelled"}

\* formationRepo.AddScaleRequest, lines 494-508: the row gets its id; the
\* local struct keeps the state it was built with
Insert ==
  /\ pc = "insert"
  /\ req.rpc = "createScale"
  /\ \E repoOk \in BOOLEAN :
       IF repoOk
       THEN /\ scaleReq' = [scaleReq EXCEPT !.id = MyID]
            /\ inserted' = TRUE
            /\ pc' = "wait"
            /\ UNCHANGED <<ret, subs, hErr>>
       ELSE /\ Return(RawError("RepoError"))
            /\ UNCHANGED <<scaleReq, inserted>>
  /\ UNCHANGED <<log, tail, fwd, hSubs, hClosed, hasHandle, req, sideVars, si,
                 hev, currID, snap, sent, cancelled, procd, scaleCalls>>

\* case <-timeout, lines 535-537
Timeout ==
  /\ pc = "wait"
  /\ req.rpc = "createScale"
  /\ Return(GoError("timed out waiting for scale to complete"))
  /\ UNCHANGED <<log, tail, fwd, hSubs, hClosed, hasHandle, req, sideVars, si,
                 hev, currID, snap, sent, cancelled, syncVars>>

\* what the switch of lines 518-534 does with an event:
\* "continue", "cancelled" or "complete"
\* the verdict without the comparison of the request id
VerdictOfAnyRequest(e) ==
  IF e.type # "scale_request" \/ ~e.ok THEN "continue"
  ELSE IF e.st = "cancelled" THEN "cancelled"
  ELSE IF e.st = "complete" THEN "complete"
  ELSE "continue"

ScaleVerdict(e) ==
  IF e.type # "scale_request" \/ ~e.ok \/ e.oid # scaleReq.id THEN "continue"
  ELSE IF e.st = "cancelled" THEN "cancelled"
  ELSE IF e.st = "complete" THEN "complete"
  ELSE "continue"

ProcessScale ==
  /\ pc = "proc"
  /\ req.rpc = "createScale"
  /\ hev' = NoEvent
  /\ procd' = Append(procd, hev)
  /\ CASE ScaleVerdict(hev) = "cancelled" ->
            Return(GoError("scale request cancelled"))
       [] ScaleVerdict(hev) = "complete" -> Return(AfterLoopValue)
       [] OTHER -> pc' = "wait" /\ UNCHANGED <<ret, subs, hErr>>
  /\ UNCHANGED <<log, tail, fwd, hSubs, hClosed, hasHandle, req, sideVars, si,
                 currID, snap, sent, cancelled, scaleReq, inserted,
                 scaleCalls>>

\* the scheduler reports on a scale request; this request's id exists only
\* once its row is inserted
PublishScale ==
  /\ req.rpc = "createScale"
  /\ Len(log) < MaxEvents
  /\ \E oid \in {MyID, OtherID}, st \in ScaleStates, ok \in BOOLEAN :
       /\ oid = MyID => inserted
       /\ Emit([NoEvent EXCEPT !.app = MyApp, !.type = "scale_request",
                               !.oid = oid, !.ok = ok, !.st = st,
                               !.op = IF st = "pending" THEN "create" ELSE "update"])
  /\ UNCHANGED <<tail, fwd, handleVars, req, sideVars, pc, si, hev, currID,
                 snap, sent, ret, cancelled, syncVars>>

\* ------------------------------------------------------- CreateDeployment
Terminal == {"complete", "failed"}

\* the status of the deployment row: that of its latest event
DeplStatus ==
  LET mine == {k \in 1..Len(log) :
                 log[k].type = "deployment" /\ log[k].oid = MyID} IN
  IF mine = {} THEN "pending" ELSE log[Max(mine)].st

\* deploymentRepo.Add, lines 1046-1051
Add ==
  /\ pc = "add"
  /\ req.rpc = "createDeployment"
  /\ \E repoOk \in BOOLEAN :
       IF repoOk
       THEN /\ inserted' = TRUE
            /\ pc' = "mstart"
            /\ UNCHANGED <<ret, subs, hErr>>
       ELSE /\ Return(RawError("RepoError"))
            /\ UNCHANGED inserted
  /\ UNCHANGED <<log, tail, fwd, hSubs, hClosed, hasHandle, req, sideVars, si,
                 hev, currID, snap, sent, cancelled, scaleReq, procd,
                 scaleCalls>>

\* lines 1067-1080: an event is forwarded when it is a deployment event, its
\* payload unmarshals and deploymentRepo.Get returns the deployment
DeploySends(e, got) == e.type = "deployment" /\ e.ok /\ got

\* de.Error: the deployer puts the failure's message on the failed event
EventError(e) == IF e.st = "failed" THEN "deployment failed" ELSE ""

\* lines 1101-1107: the loop ends on the status deploymentRepo.Get returned
DeployStops(status) == status \in Terminal

\* the release the deployment moves the app to, and the processes and tags
\* of the scale_request the client put in its CreateDeploymentRequest
NewReleaseID == "R2"
RequestedScale == [processes |-> "web=3", tags |-> "none"]

\* a scale on every forwarded event, whatever the deployment's status
ScaleOnEveryEvent(status) == req.scale

\* lines 1083-1084: d.Status == "complete" and req.ScaleRequest != nil
ScaleIssued(status) == status = "complete" /\ req.scale

\* lines 1085-1089: the CreateScaleRequest handed to createScale
EmbeddedScale(ev) ==
  [ev |-> ev, parent |-> <<MyApp, NewReleaseID>>,
   processes |-> RequestedScale.processes, tags |-> RequestedScale.tags]

\* one iteration of the loop of lines 1062-1108
ProcessDeploy ==
  /\ pc = "proc"
  /\ req.rpc = "createDeployment"
  /\ hev' = NoEvent
  /\ \E got \in BOOLEAN :
       LET status == DeplStatus IN
       /\ procd' = Append(procd, [id |-> hev.id, ok |-> hev.ok, got |-> got,
                                  st |-> status])
       /\ IF DeploySends(hev, got)
          THEN /\ scaleCalls' = IF ScaleIssued(status)
                                THEN Append(scaleCalls, EmbeddedScale(hev.id))
                                ELSE scaleCalls
               /\ sent' = Append(sent, Single(hev.id))
               /\ IF DeployStops(status)
                  THEN Return(IF status = "failed"
                              THEN GoError(EventError(hev))
                              ELSE AfterLoopValue)
                  ELSE pc' = "wait" /\ UNCHANGED <<ret, subs, hErr>>
          ELSE /\ pc' = "wait"
               /\ UNCHANGED <<ret, subs, hErr, sent, scaleCalls>>
  /\ UNCHANGED <<log, tail, fwd, hSubs, hClosed, hasHandle, req, sideVars, si,
                 currID, snap, cancelled, scaleReq, inserted>>

\* the deployer reports on the deployment until it reaches a terminal status
PublishDeploy ==
  /\ req.rpc = "createDeployment"
  /\ inserted
  /\ Len(log) < MaxEvents
  /\ DeplStatus \notin Terminal
  /\ \E st \in {"running", "complete", "failed"}, ok \in BOOLEAN :
       Emit([NoEvent EXCEPT !.app = MyApp, !.type = "deployment",
                            !.oid = MyID, !.op = "update", !.ok = ok,
                            !.st = st])
  /\ UNCHANGED <<tail, fwd, handleVars, req, sideVars, pc, si, hev, currID,
                 snap, sent, ret, cancelled, syncVars>>

\* ------------------------------------- maybeStartEventListener, concurrently
\* goroutines calling subscribeEvents at the same time, and the calls they
\* may make in all
MaxCallers == 2
MaxCalls == 3

Callers == 1..MaxCallers

\* data.EventListener: "new" after NewEventListener, "live" once Listen()
\* returned nil, "failed" when it returned an error, "dead" when the tail
\* died later; IsClosed() is true of the last two
IsClosed(t) == tails[t] \in {"failed", "dead"}

NonClosed == {t \in 1..Len(tails) : ~IsClosed(t)}

\* Listen(): nil and the tail is listening, or an error and the listener
\* has closed itself with it
ListenResult(ok) == IF ok THEN "live" ELSE "failed"

\* no lock at all
NoMutex(c) == TRUE

\* line 153: c.eventListenerMtx.Lock() returns once the mutex is free
CanLock(c) == mtx = 0

\* the stored pointer is handed out whatever its state
ReuseAnyStored == cur # 0

\* line 155: c.eventListener != nil && !c.eventListener.IsClosed()
Reusable == cur # 0 /\ ~IsClosed(cur)

\* line 154: the deferred Unlock
Unlock(c) == mtx' = IF mtx = c THEN 0 ELSE mtx

Handout(c, t, err, st) ==
  [caller |-> c, tail |-> t, err |-> err, st |-> st, entry |-> centry[c]]

\* line 179: a goroutine in subscribeEvents calls maybeStartEventListener
Call(c) ==
  /\ cpc[c] = "idle"
  /\ ncalls < MaxCalls
  /\ ncalls' = ncalls + 1
  /\ cpc' = [cpc EXCEPT ![c] = "lock"]
  /\ centry' = [centry EXCEPT ![c] = Len(tails)]
  /\ UNCHANGED <<mainVars, pageVars, listVars, updVars, mtx, tails, cur,
                 handed>>

\* line 153: it takes the mutex
Lock(c) ==
  /\ cpc[c] = "lock"
  /\ CanLock(c)
  /\ mtx' = c
  /\ cpc' = [cpc EXCEPT ![c] = "check"]
  /\ UNCHANGED <<mainVars, pageVars, listVars, updVars, tails, cur, centry,
                 handed, ncalls>>

\* lines 155-157: the live tail is returned with a nil error
Check(c) ==
  /\ cpc[c] = "check"
  /\ IF Reusable
     THEN /\ handed' = Append(handed, Handout(c, cur, NoErr, tails[cur]))
          /\ cpc' = [cpc EXCEPT ![c] = "idle"]
          /\ Unlock(c)
     ELSE /\ cpc' = [cpc EXCEPT ![c] = "new"]
          /\ UNCHANGED <<handed, mtx>>
  /\ UNCHANGED <<mainVars, pageVars, listVars, updVars, tails, cur, centry,
                 ncalls>>

\* line 158: c.eventListener = data.NewEventListener(c.eventRepo)
New(c) ==
  /\ cpc[c] = "new"
  /\ tails' = Append(tails, "new")
  /\ cur' = Len(tails) + 1
  /\ cpc' = [cpc EXCEPT ![c] = "listen"]
  /\ UNCHANGED <<mainVars, pageVars, listVars, updVars, mtx, centry, handed,
                 ncalls>>

\* line 159: return c.eventListener, c.eventListener.Listen(); a Listen
\* that fails closes its listener with the error
Listen(c) ==
  /\ cpc[c] = "listen"
  /\ \E listenOk \in BOOLEAN :
       LET st == ListenResult(listenOk) IN
       /\ tails' = [tails EXCEPT ![cur] = st]
       /\ handed' = Append(handed,
                     Handout(c, cur, IF listenOk THEN NoErr ELSE "ListenFailed",
                             st))
  /\ cpc' = [cpc EXCEPT ![c] = "idle"]
  /\ Unlock(c)
  /\ UNCHANGED <<mainVars, pageVars, listVars, updVars, cur, centry, ncalls>>

\* a live tail dies (the connection to the log is lost)
ListenerDies ==
  /\ \E t \in 1..Len(tails) :
       /\ tails[t] = "live"
       /\ tails' = [tails EXCEPT ![t] = "dead"]
  /\ UNCHANGED <<mainVars, pageVars, listVars, updVars, mtx, cur, cpc, centry,
                 handed, ncalls>>

\* ------------------------------------------- StreamReleases, page by page
MaxReleases == 6
MaxPage == 3

Min(a, b) == IF a < b THEN a ELSE b

\* the ids of S as a sequence, highest first
RECURSIVE Desc(_)
Desc(S) == IF S = {} THEN <<>> ELSE <<Max(S)>> \o Desc(S \ {Max(S)})

\* eventRepo.LegacyListEvents(..., beforeID, nil, count): the release events
\* strictly older than beforeID, newest first, at most count of them
LegacyListEvents(beforeID, count) ==
  LET all == Desc({i \in 1..nrel : beforeID = 0 \/ i < beforeID}) IN
  IF count = 0 THEN all ELSE SubSeq(all, 1, Min(count, Len(all)))

\* lines 830-831: event := list[0]; beforeID is its ID
TokenFrom(list) == list[1]

\* lines 816-847: the page of a request with page token [BeforeID, Size]:
\* one event more than the page is asked for, to see if a next page exists
ReleasesPage(beforeID, pageSize) ==
  LET count == IF pageSize > 0 THEN pageSize + 1 ELSE 0
      list == LegacyListEvents(beforeID, count)
      hasNext == (pageSize = 0 \/ Len(list) = pageSize + 1) /\ Len(list) > 0
      kept == IF hasNext THEN SubSeq(list, 1, Len(list) - 1) ELSE list
  IN [ids |-> kept, next |-> IF hasNext THEN TokenFrom(kept) ELSE 0]

\* the client sends a unary StreamReleases with the token it holds and
\* receives the page
FetchPage ==
  /\ more
  /\ LET page == ReleasesPage(ptok, psize) IN
     /\ pages' = Append(pages, [ids |-> page.ids, next |-> page.next,
                                at |-> nrel])
     /\ ptok' = page.next
     /\ more' = (page.next # 0)
  /\ UNCHANGED <<mainVars, startVars, listVars, updVars, psize, nrel>>

\* a release is created between two requests of the client
AddRelease ==
  /\ nrel < MaxReleases
  /\ nrel' = nrel + 1
  /\ UNCHANGED <<mainVars, startVars, listVars, updVars, psize, ptok, more,
                 pages>>

\* ---------------------------------------------------------------- listApps
MaxApps == 4
MaxListCalls == 2

NotListed == [read |-> FALSE, apps |-> <<>>, next |-> 0, err |-> NoErr,
              calls |-> 0]

\* appRepo.ListPage(pageToken): the next pageToken.Size apps from the
\* token's position on, and a token for the rest if there is any
ListPage(start, size) ==
  LET last == Min(start + size - 1, Len(rows)) IN
  [ids |-> [k \in 1..(last + 1 - start) |-> start + k - 1],
   next |-> IF last < Len(rows) THEN last + 1 ELSE 0]

\* lines 300-325: the apps of the page that pass the name and label
\* filters, up to pageSize of them
Filtered(ids, pageSize) ==
  LET Passes(i) == rows[i]
      kept == SelectSeq(ids, Passes)
  IN SubSeq(kept, 1, Min(pageSize, Len(kept)))

\* lines 338-340: on an error of the recursive call the apps collected so
\* far are returned with a nil error
OnNextPageError(apps, next, r) ==
  [read |-> TRUE, apps |-> apps, next |-> next, err |-> NoErr,
   calls |-> r.calls]

\* line 331: the recursive call is made with PageSize: req.PageSize
NextPageSize(pageSize, n) == pageSize

\* listApps, lines 269-346, for the page token at position start; call is
\* the number of this appRepo.ListPage call, size the Size of the token
RECURSIVE listApps(_, _, _)
listApps(start, size, call) ==
  IF failAt = call
  THEN [read |-> TRUE, apps |-> <<>>, next |-> 0, err |-> "RepoError",
        calls |-> call]
  ELSE LET page == ListPage(start, size)
           apps == Filtered(page.ids, size)
           n == Len(apps)
       IN IF n < size /\ page.next # 0
          THEN LET r == listApps(page.next, NextPageSize(size, n), call + 1) IN
               IF r.err # NoErr
               THEN OnNextPageError(apps, page.next, r)
               ELSE [read |-> TRUE, apps |-> r.apps \o apps, next |-> r.next,
                     err |-> NoErr, calls |-> r.calls]
          ELSE [read |-> TRUE, apps |-> apps, next |-> page.next,
                err |-> NoErr, calls |-> call]

\* StreamApps, lines 384-391, for a unary request: refreshApps, then the
\* one response
SnapshotApps ==
  /\ pc = "snap"
  /\ req.rpc = "apps"
  /\ ~listed.read
  /\ LET r == listApps(1, psize, 1) IN
     /\ listed' = r
     /\ IF r.err # NoErr
        THEN /\ Return(RawError(r.err))
             /\ UNCHANGED sent
        ELSE /\ sent' = Append(sent, Page(Range(r.apps)))
             /\ Return(Success)
  /\ UNCHANGED <<log, tail, fwd, hSubs, hClosed, hasHandle, req, si, hev,
                 currID, snap, cancelled, syncVars, startVars, pageVars,
                 updVars, rows, failAt>>

\* --------------------------------------------------------------- UpdateApp
\* the fields of the app projection UpdateApp may write, under the names the
\* repo knows them by
Fields == {"meta", "strategy", "deploy_timeout"}
\* the paths a mask may name
Paths == {"labels", "strategy", "deploy_timeout", "name"}

\* the zero value of each field: no labels, "", 0
Zero(f) ==
  CASE f = "meta" -> "none"
    [] f = "strategy" -> ""
    [] f = "deploy_timeout" -> "0"

\* app.Labels, app.Strategy, app.DeployTimeout
AppField(f) == upd.app[f]

\* lines 447-457: "meta" is put in the map as it is, the other two when set
BaseKeys == {"meta"} \cup {f \in {"strategy", "deploy_timeout"} :
                            AppField(f) # Zero(f)}

\* lines 463-465
Alias(path) == IF path = "labels" THEN "meta" ELSE path

\* lines 459-472: a mask with paths keeps the named entries of the map
MaskedKeys ==
  IF upd.mask /\ upd.paths # {}
  THEN {Alias(path) : path \in upd.paths} \cap BaseKeys
  ELSE BaseKeys

UpdateData == [f \in MaskedKeys |-> AppField(f)]

NotWritten == [done |-> FALSE, data |-> <<>>]

\* UpdateApp, lines 445-479
UpdateApp ==
  /\ pc = "update"
  /\ req.rpc = "updateApp"
  /\ wrote' = [done |-> TRUE, data |-> UpdateData]
  /\ \E repoOk \in BOOLEAN :
       Return(IF repoOk THEN Success ELSE ConvertError("RepoError"))
  /\ UNCHANGED <<log, tail, fwd, hSubs, hClosed, hasHandle, req, si, hev,
                 currID, snap, sent, cancelled, syncVars, startVars, pageVars,
                 listVars, upd>>

\* ---------------------------------------------------------- specifications
ReqApps == {<<>>, <<"a1">>, <<"a1", "a2">>}

\* nothing calls maybeStartEventListener on its own
SideIdle ==
  /\ mtx = 0
  /\ tails = <<>>
  /\ cur = 0
  /\ cpc = [c \in Callers |-> "idle"]
  /\ centry = [c \in Callers |-> 0]
  /\ handed = <<>>
  /\ ncalls = 0

PagesIdle ==
  /\ nrel = 0
  /\ ptok = 0
  /\ more = FALSE
  /\ pages = <<>>

ListIdle ==
  /\ rows = <<>>
  /\ failAt = 0
  /\ listed = NotListed

UpdIdle ==
  /\ upd = [app |-> [f \in Fields |-> Zero(f)], mask |-> FALSE, paths |-> {}]
  /\ wrote = NotWritten

InitMain ==
  /\ SideIdle
  /\ log = <<>>
  /\ tail = "nil"
  /\ subs = <<>>
  /\ fwd = <<>>
  /\ hSubs = <<>>
  /\ hErr = NoErr
  /\ hClosed = FALSE
  /\ hasHandle = FALSE
  /\ si = 1
  /\ hev = NoEvent
  /\ currID = 0
  /\ snap = [read |-> FALSE, ids |-> {}]
  /\ sent = <<>>
  /\ ret = NotReturned
  /\ cancelled = FALSE
  /\ scaleReq = [id |-> "", state |-> "pending"]
  /\ inserted = FALSE
  /\ procd = <<>>
  /\ scaleCalls = <<>>

InitCommon ==
  /\ InitMain
  /\ psize = 0
  /\ PagesIdle
  /\ ListIdle
  /\ UpdIdle

InitStream ==
  /\ InitCommon
  /\ req \in [rpc : StreamRPCs, creates : BOOLEAN, updates : BOOLEAN,
              apps : ReqApps, scale : {FALSE},
              rels : {{}}, scaleIds : {{}}]
  /\ pc = FirstPc(req)

NextStream ==
  \/ MaybeStart
  \/ SubscribeOne
  \/ Snapshot
  \/ Receive
  \/ Process
  \/ Forward
  \/ PublishStream
  \/ TailDies

SpecStream == InitStream /\ [][NextStream]_vars


\* the streaming RPCs, without and with a client that may cancel, under the
\* scheduling of the Go runtime: a goroutine that can take a step eventually
\* takes it
MaxSubs == 2

HandlerStep == MaybeStart \/ SubscribeOne \/ Snapshot \/ Receive \/ Process

InitLive ==
  /\ InitCommon
  /\ req \in [rpc : StreamRPCs, creates : {TRUE}, updates : BOOLEAN,
              apps : ReqApps, scale : {FALSE},
              rels : {{}}, scaleIds : {{}}]
  /\ pc = FirstPc(req)

NextLive == NextStream \/ Cancel

Fairness ==
  /\ WF_vars(HandlerStep)
  /\ \A i \in 1..MaxSubs : WF_vars(FwdRecv(i))

FairStream == InitLive /\ [][NextStream]_vars /\ Fairness

FairCancel == InitLive /\ [][NextLive]_vars /\ Fairness

InitScale ==
  /\ InitCommon
  /\ req = [rpc |-> "createScale", creates |-> FALSE, updates |-> FALSE,
            apps |-> <<>>, scale |-> FALSE,
            rels |-> {}, scaleIds |-> {}]
  /\ pc = FirstPc(req)

NextScale ==
  \/ MaybeStart
  \/ SubscribeOne
  \/ Insert
  \/ Receive
  \/ Timeout
  \/ ProcessScale
  \/ Forward
  \/ PublishScale
  \/ TailDies

SpecScale == InitScale /\ [][NextScale]_vars

\* createScale under the scheduling of the Go runtime; the timer may or may
\* not fire
ScaleStep == MaybeStart \/ SubscribeOne \/ Insert \/ Receive \/ ProcessScale

FairScale ==
  /\ InitScale
  /\ [][NextScale]_vars
  /\ WF_vars(ScaleStep)
  /\ \A i \in 1..MaxSubs : WF_vars(FwdRecv(i))

InitDeploy ==
  /\ InitCommon
  /\ req \in [rpc : {"createDeployment"}, creates : {FALSE}, updates : {FALSE},
              apps : {<<>>}, scale : BOOLEAN,
              rels : {{}}, scaleIds : {{}}]
  /\ pc = FirstPc(req)

NextDeploy ==
  \/ Add
  \/ MaybeStart
  \/ SubscribeOne
  \/ Receive
  \/ ProcessDeploy
  \/ Forward
  \/ PublishDeploy
  \/ TailDies

SpecDeploy == InitDeploy /\ [][NextDeploy]_vars

\* subscribeEvents called with each shape of app-id list: none, the
\* wildcard itself, one id, two ids, the same id twice
SubscribeApps == ReqApps \cup {<<"">>, <<"a2", "a2">>}

InitSubscribe ==
  /\ InitCommon
  /\ req \in [rpc : {"apps", "scales", "releases"}, creates : {TRUE},
              updates : {FALSE}, apps : SubscribeApps, scale : {FALSE},
              rels : {{}}, scaleIds : {{}}]
  /\ pc = FirstPc(req)

SpecSubscribe == InitSubscribe /\ [][NextStream]_vars

\* a client that pages through the releases with a fixed page_size
InitPages ==
  /\ InitMain
  /\ ListIdle
  /\ UpdIdle
  /\ req = [rpc |-> "releases", creates |-> FALSE, updates |-> FALSE,
            apps |-> <<>>, scale |-> FALSE,
            rels |-> {}, scaleIds |-> {}]
  /\ pc = "done"
  /\ psize \in 1..MaxPage
  /\ nrel \in 0..MaxReleases
  /\ ptok = 0
  /\ more = TRUE
  /\ pages = <<>>

NextPages == FetchPage \/ AddRelease

SpecPages == InitPages /\ [][NextPages]_vars

\* a unary StreamApps over a repo of apps, some of which pass the filters
BoolSeqs(n) == UNION {[1..k -> BOOLEAN] : k \in 0..n}

InitListApps ==
  /\ InitMain
  /\ PagesIdle
  /\ UpdIdle
  /\ req = [rpc |-> "apps", creates |-> FALSE, updates |-> FALSE,
            apps |-> <<>>, scale |-> FALSE,
            rels |-> {}, scaleIds |-> {}]
  /\ pc = FirstPc(req)
  /\ psize \in 1..MaxPage
  /\ rows \in BoolSeqs(MaxApps)
  /\ failAt \in 0..MaxListCalls
  /\ listed = NotListed

NextListApps == SnapshotApps

SpecListApps == InitListApps /\ [][NextListApps]_vars

\* UpdateApp for every shape of app projection and update mask
FieldValues(f) ==
  {Zero(f)} \cup (CASE f = "meta" -> {"l1"}
                   [] f = "strategy" -> {"one-by-one"}
                   [] f = "deploy_timeout" -> {"30"})

InitUpdate ==
  /\ InitMain
  /\ psize = 0
  /\ PagesIdle
  /\ ListIdle
  /\ req = [rpc |-> "updateApp", creates |-> FALSE, updates |-> FALSE,
            apps |-> <<>>, scale |-> FALSE,
            rels |-> {}, scaleIds |-> {}]
  /\ pc = "update"
  /\ \E app \in [Fields -> UNION {FieldValues(f) : f \in Fields}],
        mask \in BOOLEAN, paths \in SUBSET Paths :
       /\ \A f \in Fields : app[f] \in FieldValues(f)
       /\ ~mask => paths = {}
       /\ upd = [app |-> app, mask |-> mask, paths |-> paths]
  /\ wrote = NotWritten

NextUpdate == UpdateApp

SpecUpdate == InitUpdate /\ [][NextUpdate]_vars

\* StreamScales in streaming mode under every combination of app, release
\* and scale name filters
InitScaleFilter ==
  /\ InitCommon
  /\ req \in [rpc : {"scales"}, creates : {TRUE}, updates : {FALSE},
              apps : {<<>>, <<"a1">>}, scale : {FALSE},
              rels : {{}, {"v1"}}, scaleIds : {{}, {"s1"}}]
  /\ pc = FirstPc(req)

NextScaleFilter ==
  \/ MaybeStart
  \/ SubscribeOne
  \/ Snapshot
  \/ Receive
  \/ Process
  \/ Forward
  \/ PublishScaleRequest
  \/ TailDies

SpecScaleFilter == InitScaleFilter /\ [][NextScaleFilter]_vars

\* concurrent subscribeEvents calls racing for the tail; no handler runs
InitStart ==
  /\ InitCommon
  /\ req = [rpc |-> "none", creates |-> FALSE, updates |-> FALSE,
            apps |-> <<>>, scale |-> FALSE,
            rels |-> {}, scaleIds |-> {}]
  /\ pc = "done"

NextStart ==
  \/ \E c \in Callers : Call(c)
  \/ \E c \in Callers : Lock(c)
  \/ \E c \in Callers : Check(c)
  \/ \E c \in Callers : New(c)
  \/ \E c \in Callers : Listen(c)
  \/ ListenerDies

SpecStart == InitStart /\ [][NextStart]_vars


\* ------------------------------------------------------------------ claims
Streaming == req.rpc \in StreamRPCs /\ ~Unary(req)

\* every subscriber of the handle is open and the tail is listening
HandleLive ==
  /\ hasHandle
  /\ tail = "live"
  /\ \A i \in Range(hSubs) : ~subs[i].closed

\* the ids the bus handed to the subscribers of the handle
LiveIds == UNION {Range(subs[i].seen) : i \in Range(hSubs)}

\* C1: in streaming mode every Stream* RPC registers its subscription before
\* it reads the snapshot, so that every matching event published after the
\* RPC started is reflected in the snapshot or was delivered to the live feed.
C1_SubscribedBeforeSnapshot ==
  /\ (Streaming /\ snap.read) => (hasHandle \/ pc = "done")
  /\ (Streaming /\ snap.read /\ HandleLive) =>
       \A k \in 1..Len(log) :
         ReqMatches(log[k]) => (log[k].id \in snap.ids \/ log[k].id \in LiveIds)

\* C1 restricted to the three handlers that subscribe first
C1_HoldsForSubscribeFirst == req.rpc # "deployments" => C1_SubscribedBeforeSnapshot

\* the ids sent as live single-element responses
LiveSent == UNION {sent[k].ids : k \in {j \in 1..Len(sent) : ~sent[j].page}}

\* C2: in every streaming RPC a live event whose id is at most the highest
\* event id reflected in the snapshot is never sent as a live response.
C2_NoLiveEventBelowSnapshot ==
  (Streaming /\ snap.read) => \A id \in LiveSent : id > Max(snap.ids)

\* C2 restricted to the handlers whose live feed starts above the snapshot
C2_HoldsForReleasesDeployments ==
  req.rpc \in {"releases", "deployments"} => C2_NoLiveEventBelowSnapshot

AllSubsClosed == hasHandle /\ \A i \in Range(hSubs) : subs[i].closed

\* C3: the Events channel of a handle is closed only when all its underlying
\* subscribers are closed, and is eventually closed once they all are.
C3_EventsClosedIffSubsClosed ==
  /\ [](hClosed => AllSubsClosed)
  /\ AllSubsClosed ~> hClosed

\* C4: if the tail dies while a streaming RPC waits for live events, the
\* handler eventually stops waiting and the RPC terminates.
C4_TailDeathEndsRPC ==
  (Streaming /\ pc = "wait" /\ tail = "closed" /\ AllSubsClosed) ~> (pc = "done")

\* C6: once the client has cancelled a streaming RPC the handler eventually
\* returns, with every subscriber of its handle closed.
C6_CancelEndsRPC ==
  (Streaming /\ cancelled) ~> (pc = "done" /\ (hasHandle => AllSubsClosed))


Last(q) == q[Len(q)]

\* createScale left its loop on this request's complete / cancelled event
EndedOn(verdict) ==
  /\ req.rpc = "createScale"
  /\ pc = "done"
  /\ Len(procd) > 0
  /\ ScaleVerdict(Last(procd)) = verdict

\* C5: a handler that returns from its receive loop after a subscriber of its
\* handle terminated with an error returns that error, never success.
C5_SubErrorIsStatus ==
  (EndedOn("complete") /\ hErr # NoErr) => (ret.code # "OK" /\ ret.msg = hErr)

\* C7: createScale returns successfully on the complete event of its own
\* request, and the record it returns has state complete.
C7_CompleteReturnsComplete ==
  EndedOn("complete") => (ret.code = "OK" /\ ret.state = "complete")

\* C8: createScale fails with Aborted("scale request cancelled") on the
\* cancelled event of its own request, and on no event of another request.
C8_CancelledIsAborted ==
  /\ EndedOn("cancelled") =>
       (ret.code = "Aborted" /\ ret.msg = "scale request cancelled")
  /\ (req.rpc = "createScale" /\ ret.msg = "scale request cancelled") =>
       (Len(procd) > 0 /\ Last(procd).oid = MyID /\ Last(procd).st = "cancelled")

\* createScale returned from its loop without a terminal event of its request
TimedOut ==
  /\ req.rpc = "createScale"
  /\ pc = "done"
  /\ inserted
  /\ ~EndedOn("complete")
  /\ ~EndedOn("cancelled")

\* C9: createScale terminates; without a terminal event for its request it
\* fails with DeadlineExceeded, whatever other events arrived.
C9_TimeoutIsDeadlineExceeded == TimedOut => ret.code = "DeadlineExceeded"


\* the event ids CreateDeployment sent, in order
SentIds == [k \in 1..Len(sent) |-> CHOOSE id \in sent[k].ids : TRUE]

ProcdIds == [k \in 1..Len(procd) |-> procd[k].id]

IsPrefix(p, q) == Len(p) <= Len(q) /\ \A k \in 1..Len(p) : p[k] = q[k]

\* the ids the bus delivered to the subscriber of CreateDeployment
Delivered == IF hasHandle THEN subs[hSubs[1]].seen ELSE <<>>

\* the delivered events up to and including the first with a terminal status
UpToTerminal(d) ==
  LET term == {k \in 1..Len(d) : log[d[k]].st \in Terminal} IN
  IF term = {} THEN d
  ELSE SubSeq(d, 1, CHOOSE k \in term : \A j \in term : k <= j)

\* CreateDeployment returned from its loop: every return after the handle
\* exists is one of lines 1103 and 1111
DeployReturned ==
  /\ req.rpc = "createDeployment"
  /\ pc = "done"
  /\ hasHandle

\* an event CreateDeployment took whose payload unmarshalled and whose
\* deployment the repo returned
Forwarded(p) == p.ok /\ p.got

\* no delivered event had an unparseable payload and no repo read failed:
\* the events the handler logs and skips are left out of the count
NothingSkipped ==
  /\ \A k \in 1..Len(Delivered) : log[Delivered[k]].ok
  /\ \A k \in 1..Len(procd) : Forwarded(procd[k])

\* C10: CreateDeployment sends exactly one DeploymentEvent for every event the
\* bus delivers for its deployment, in delivery order, up to and including the
\* event with which the deployment reaches complete or failed.
C10_OneSendPerDeliveredEvent ==
  (req.rpc = "createDeployment" /\ NothingSkipped) =>
    /\ IsPrefix(SentIds, UpToTerminal(Delivered))
    /\ DeployReturned => SentIds = UpToTerminal(Delivered)

ForwardedIds ==
  LET f == SelectSeq(procd, Forwarded) IN [k \in 1..Len(f) |-> f[k].id]

\* the shape of the loop of CreateDeployment: events are taken in delivery
\* order, one DeploymentEvent is sent for each forwarded event and none for a
\* skipped one, and the handler returns at the first forwarded event at which
\* the repo reports the deployment complete or failed
DeployLoopShape ==
  req.rpc = "createDeployment" =>
    /\ SentIds = ForwardedIds
    /\ IsPrefix(ProcdIds, Delivered)
    /\ \A k \in 1..Len(procd) :
         (Forwarded(procd[k]) /\ procd[k].st \in Terminal) =>
           (k = Len(procd) /\ DeployReturned)
    /\ DeployReturned =>
         (Len(procd) > 0 /\ Forwarded(Last(procd)) /\ Last(procd).st \in Terminal)

\* ------------------------------------------------------------ C11
\* CreateDeployment returned from its loop with success
DeployOK == req.rpc = "createDeployment" /\ pc = "done" /\ ret.code = "OK"

DeployFailed == DeployReturned /\ DeplStatus = "failed"

\* C12: when the deployment reaches status failed, CreateDeployment returns
\* FailedPrecondition with the deployment's error message and issues no
\* embedded scale.
C12_FailedIsFailedPrecondition ==
  DeployFailed =>
    /\ ret.code = "FailedPrecondition"
    /\ ret.msg = "deployment failed"
    /\ scaleCalls = <<>>

\* what holds of the failed return: an error, and no scale issued
C12_FailedReturnsErrorNoScale ==
  DeployFailed => (ret.code # "OK" /\ scaleCalls = <<>>)

\* ------------------------------------------------------------ C13, C14
Succeeded == {k \in 1..Len(handed) : handed[k].err = NoErr}

\* C13: whatever the interleaving of concurrent subscribeEvents calls, a new
\* tail is created only when none is alive: at most one tail is not closed
\* at any moment, it is the stored one, and the calls that succeeded and
\* whose tail is still alive all hold that same tail.
C13_OneTailForConcurrentCalls ==
  /\ Cardinality(NonClosed) <= 1
  /\ \A t \in NonClosed : t = cur
  /\ \A j, k \in Succeeded :
       (~IsClosed(handed[j].tail) /\ ~IsClosed(handed[k].tail)) =>
         handed[j].tail = handed[k].tail

\* two goroutines called while no tail existed, and both came back with
\* the one tail that was created
C13_TwoCallersOneTail ==
  /\ Len(tails) = 1
  /\ \E j, k \in Succeeded :
       /\ handed[j].caller # handed[k].caller
       /\ handed[j].entry = 0
       /\ handed[k].entry = 0
       /\ handed[j].tail = handed[k].tail

\* C14: maybeStartEventListener hands out with a nil error only a tail that
\* is listening at that moment; a failed start is returned as an error with
\* the stored tail closed, and a later call never gets that tail again.
C14_NeverHandsOutClosedTail ==
  /\ \A k \in 1..Len(handed) :
       /\ handed[k].err = NoErr => handed[k].st = "live"
       /\ handed[k].err # NoErr => IsClosed(handed[k].tail)
  /\ \A j, k \in 1..Len(handed) :
       (j < k /\ handed[j].err # NoErr) => handed[k].tail # handed[j].tail
  /\ \A j, k \in 1..Len(handed) :
       (j < k /\ handed[k].err = NoErr /\ handed[k].tail # handed[j].tail) =>
         IsClosed(handed[j].tail)

\* a start failed, and a later call created and started a new tail; another
\* tail died, and the call after it did the same
C14_RetriedAfterFailure ==
  \E j, k \in 1..Len(handed) :
    /\ j < k
    /\ handed[j].err # NoErr
    /\ handed[k].err = NoErr
    /\ handed[k].tail # handed[j].tail

\* ------------------------------------------------------------ C15
\* the app id the k-th subscriber of a call is to have
WantedApp(k) == IF Len(req.apps) = 0 THEN "" ELSE req.apps[k]

WantedSubs == IF Len(req.apps) = 0 THEN 1 ELSE Len(req.apps)

\* C15: subscribeEvents with no app id creates exactly one bus subscriber,
\* with the wildcard app id "", just as a call with [""] does; with n >= 1
\* app ids it creates exactly n subscribers, the k-th for the k-th app id,
\* all with the object types and object ids of the call.
C15_OneSubscriberPerAppId ==
  /\ EffApps(<<>>) = EffApps(<<"">>)
  /\ hasHandle =>
       /\ Len(hSubs) = WantedSubs
       /\ Len(subs) = WantedSubs
       /\ \A j, k \in 1..Len(hSubs) : hSubs[j] = hSubs[k] => j = k
       /\ \A k \in 1..Len(hSubs) :
            /\ subs[hSubs[k]].app = WantedApp(k)
            /\ subs[hSubs[k]].types = SubTypes(req.rpc)
            /\ subs[hSubs[k]].oids = SubOids
            /\ \A id \in Range(subs[hSubs[k]].seen) :
                 WantedApp(k) \in {"", log[id].app}

\* a call without app ids holds one subscriber that saw events of two apps
C15_WildcardSawBothApps ==
  /\ hasHandle
  /\ req.apps = <<>>
  /\ Len(hSubs) = 1
  /\ \E j, k \in Range(subs[hSubs[1]].seen) : log[j].app # log[k].app

\* ------------------------------------------------------------ C16
\* the ids of the first k pages the client received
OnPages(k) == UNION {Range(pages[j].ids) : j \in 1..k}

\* the first page holds the psize newest releases, newest first, and names a
\* next page
FirstPageNewest ==
  (pages # <<>> /\ pages[1].at > psize) =>
    /\ pages[1].ids = [k \in 1..psize |-> pages[1].at + 1 - k]
    /\ pages[1].next # 0

\* every release that existed at the first request is on some page once the
\* client has followed the tokens to the end
NoneSkipped ==
  (pages # <<>> /\ ~more) => \A i \in 1..pages[1].at : i \in OnPages(Len(pages))

NoneTwice ==
  \A j, k \in 1..Len(pages) :
    j < k => Range(pages[j].ids) \cap Range(pages[k].ids) = {}

\* C16: StreamReleases with page_size n > 0 over more than n releases gives
\* the n newest, newest first, with a next_page_token, and following the
\* tokens returns every release exactly once: none on two pages, none skipped.
C16_PagesPartitionReleases == FirstPageNewest /\ NoneTwice /\ NoneSkipped

\* what holds of the pages: the first is right and no release is skipped
C16_FirstPageAndNoneSkipped == FirstPageNewest /\ NoneSkipped

\* with page_size 1 the pages do partition the releases
C16_HoldsForPageSizeOne == psize = 1 => C16_PagesPartitionReleases

\* ------------------------------------------------------------ C18, C19
\* C18: the app snapshot listApps builds for a page_size p > 0 holds at
\* most p apps: further pages are fetched and prepended only until p apps
\* are collected or no page is left.
C18_AtMostPageSizeApps ==
  (listed.read /\ listed.err = NoErr) => Len(listed.apps) <= psize

\* what listApps does guarantee: a single appRepo.ListPage call yields at
\* most p apps, and the whole snapshot fewer than p for each call made
C18_AtMostPageSizePerCall ==
  (listed.read /\ listed.err = NoErr) =>
    /\ Len(listed.apps) <= psize + (listed.calls - 1) * (psize - 1)
    /\ \A j, k \in 1..Len(listed.apps) :
         listed.apps[j] = listed.apps[k] => j = k
    /\ \A k \in 1..Len(listed.apps) : rows[listed.apps[k]]

\* a call of appRepo.ListPage made for the snapshot returned an error
RepoErrorRaised == listed.read /\ failAt \in 1..listed.calls

\* C19: a repo error raised while the snapshot is built fails the RPC at
\* once with that error, and no snapshot response is emitted; for the first
\* page StreamApps fetches and for every further page fetched to fill it.
C19_RepoErrorFailsSnapshot ==
  (req.rpc = "apps" /\ RepoErrorRaised) =>
    /\ pc = "done"
    /\ ret.code # "OK"
    /\ ret.msg = "RepoError"
    /\ sent = <<>>

\* C19 for the first page alone
C19_HoldsForFirstPage == failAt = 1 => C19_RepoErrorFailsSnapshot

\* ------------------------------------------------------------ C17
UnaryStream == req.rpc \in StreamRPCs /\ Unary(req)

\* a unary request that returned sent its one page and nothing else
OnePageSent ==
  (UnaryStream /\ pc = "done" /\ ret.code = "OK") =>
    (Len(sent) = 1 /\ sent[1].page)

\* C17: a non-streaming request to StreamApps, StreamScales, StreamReleases
\* or StreamDeployments fetches one page, sends exactly one response and
\* returns without opening a subscription on the event bus: the tail is not
\* started for it, and it fails only when the repo read fails.
C17_UnaryOpensNoSubscription ==
  /\ OnePageSent
  /\ UnaryStream =>
       /\ subs = <<>>
       /\ ~hasHandle
       /\ tail = "nil"
       /\ (pc = "done" /\ ret.code # "OK") => ret.msg = "RepoError"

\* C17 for the two handlers that test unary before they subscribe
C17_HoldsForAppsDeployments ==
  req.rpc \in {"apps", "deployments"} => C17_UnaryOpensNoSubscription

\* ------------------------------------------------------------ C20
Written == DOMAIN wrote.data

NoMask == ~upd.mask \/ upd.paths = {}

\* C20: without an update mask (or with a mask without paths) UpdateApp
\* writes every non-zero field among labels (as meta), strategy and
\* deploy_timeout and no zero-valued one; with a mask that has paths it
\* writes only fields the mask names, labels being written as meta.
C20_WritesNonZeroOrMasked ==
  wrote.done =>
    /\ \A f \in Written : wrote.data[f] = AppField(f)
    /\ NoMask => \A f \in Fields : f \in Written <=> AppField(f) # Zero(f)
    /\ ~NoMask => \A f \in Written : \E path \in upd.paths : Alias(path) = f

\* what UpdateApp writes: meta whenever it is not masked out, whatever the
\* labels are, and strategy and deploy_timeout when set and not masked out
C20_WritesMetaUnlessMasked ==
  wrote.done =>
    /\ \A f \in Written : wrote.data[f] = AppField(f)
    /\ NoMask => Written = {"meta"} \cup {f \in Fields : AppField(f) # Zero(f)}
    /\ ~NoMask => \A f \in Written : \E path \in upd.paths : Alias(path) = f

\* ------------------------------------------------------------ C21
\* the bus delivers e to a subscriber of the handle
Subscribed(e) == \E i \in Range(hSubs) : Matches(e, subs[i])

\* the name filters of the request, as section 4.6 decomposes them
WantedByName(e) ==
  \/ req.rels # {} /\ e.rel \in req.rels
  \/ Len(req.apps) > 0 /\ e.app \in Range(req.apps)
  \/ req.scaleIds # {} /\ e.oid \in req.scaleIds
  \/ (req.rels = {} /\ Len(req.apps) = 0 /\ req.scaleIds = {})

\* C21: in StreamScales streaming mode a scale_request event that passes the
\* op filter and the watermark is emitted if and only if its app, release or
\* scale id is in the corresponding non-empty filter set, or all three sets
\* are empty, the filters of the bus subscription and the handler's own
\* filter taken together.
C21_EmittedIffNameMatches ==
  /\ \A k \in 1..Len(log) : log[k].id \in LiveSent => WantedByName(log[k])
  /\ (req.rpc = "scales" /\ hasHandle) =>
       \A e \in ScaleEvents :
         (Subscribed(e) /\ Accepts(e, TRUE)) <=> WantedByName(e)

\* the two filters agree unless the request names apps and scale requests
\* but no release
C21_HoldsUnlessAppAndScaleFilter ==
  (req.rels # {} \/ Len(req.apps) = 0 \/ req.scaleIds = {}) =>
    C21_EmittedIffNameMatches

\* ------------------------------------------------------------ C22
ForwardersExited == \A i \in Range(hSubs) : fwd[i].pc = "exit"

\* C22: once a subscription handle is closed, every forwarder goroutine of
\* the handle eventually exits; none stays blocked in its send to the
\* handle's channel after the handler that owned the handle has returned.
C22_ForwardersExitAfterClose ==
  (hasHandle /\ pc = "done" /\ AllSubsClosed) ~> ForwardersExited

\* a forwarder that holds no event when the handle is closed does exit
C22_IdleForwardersExit ==
  (hasHandle /\ pc = "done" /\ Sending = {}) ~>
    (ForwardersExited \/ Sending # {})

\* ------------------------------------------------------------ C23
\* the handler took the event from the handle and is done with it: the bus
\* delivered it to a subscriber of the handle and it is neither queued, nor
\* held by a forwarder, nor being processed
Processed(id) ==
  /\ hev.id # id
  /\ \E i \in Range(hSubs) :
       /\ id \in Range(subs[i].seen)
       /\ fwd[i].ev.id # id
       /\ \A k \in 1..Len(subs[i].queue) : subs[i].queue[k].id # id

\* how many live responses carry the event
TimesSent(id) == Cardinality({k \in 1..Len(sent) : sent[k] = Single(id)})

\* every event the handler has taken that passes its filters and lies above
\* the snapshot was sent exactly once
LiveExactlyOnce ==
  (Streaming /\ req.rpc \in {"scales", "releases"} /\ snap.read) =>
    \A k \in 1..Len(log) :
      (Processed(log[k].id) /\ Accepts(log[k], TRUE)
         /\ log[k].id > Max(snap.ids)) => TimesSent(log[k].id) = 1

\* C23: with a handle that fans in two or more app-id subscribers, under
\* every interleaving of the forwarders, StreamScales and StreamReleases emit
\* every live event that passes the filters and lies above the snapshot
\* watermark exactly once.
C23_FanInExactlyOnce == Len(req.apps) >= 2 => LiveExactlyOnce

\* with a single subscriber the events arrive in id order and none is lost
C23_HoldsForOneSubscriber == Len(req.apps) < 2 => LiveExactlyOnce

\* ------------------------------------------------------------ C24
\* CreateDeployment under the scheduling of the Go runtime: the handler and
\* the forwarders run whenever they can
DeployStep == Add \/ MaybeStart \/ SubscribeOne \/ Receive \/ ProcessDeploy

FairDeploy ==
  /\ InitDeploy
  /\ [][NextDeploy]_vars
  /\ WF_vars(DeployStep)
  /\ \A i \in 1..MaxSubs : WF_vars(FwdRecv(i))

\* the deployment the handler inserted has reached a terminal status
DeployTerminal == req.rpc = "createDeployment" /\ inserted
                    /\ DeplStatus \in Terminal

\* what else keeps the handler from seeing the terminal status: the listener
\* died or a subscriber was closed, a deployment event's payload did not
\* unmarshal, or deploymentRepo.Get failed
Disturbed ==
  \/ tail # "live"
  \/ \E i \in 1..Len(subs) : subs[i].closed
  \/ \E k \in 1..Len(log) : ~log[k].ok
  \/ \E k \in 1..Len(procd) : ~procd[k].got

\* C24: CreateDeployment eventually returns whenever the deployment it
\* inserted reaches a terminal status, also when events for the deployment
\* are published before the subscription is registered (listener failures,
\* unparseable payloads and repository errors set aside).
C24_ReturnsOnceTerminal == DeployTerminal ~> (pc = "done" \/ Disturbed)

\* an event delivered to the handle's subscriber does end the call
C24_ReturnsOnceDelivered ==
  (DeployTerminal /\ hasHandle /\ Len(log) \in Range(subs[hSubs[1]].seen))
    ~> (pc = "done" \/ Disturbed)

\* ------------------------------------------------------------ C25
\* createScale returned a scale request and a nil error
ScaleSucceeded == req.rpc = "createScale" /\ pc = "done" /\ ret.code = "OK"

\* the event is a parseable scale_request event of the inserted request
\* reporting it complete
OwnComplete(e) ==
  /\ inserted
  /\ e.type = "scale_request"
  /\ e.ok
  /\ e.oid = MyID
  /\ e.st = "complete"

\* C25: createScale returns success only after it received a scale_request
\* event carrying the id of the request it inserted and the state complete;
\* never on an event of another request, on an unparseable payload or on the
\* end of the subscription.
C25_SuccessOnlyOnOwnComplete ==
  ScaleSucceeded => (Len(procd) > 0 /\ OwnComplete(Last(procd)))

\* success after the handler skipped the complete event of another request
C25_SkippedOtherThenSucceeded ==
  /\ ScaleSucceeded
  /\ Len(procd) = 2
  /\ procd[1].oid = OtherID
  /\ procd[1].st = "complete"
  /\ procd[1].ok

\* ------------------------------------------------------------ C26
\* subscribeEvents returned an error: the tail could not be started (line
\* 181) or Subscribe failed for one of the app ids (line 203)
SubscribeFailed ==
  pc = "done" /\ ~hasHandle /\ ret.msg \in {"ListenFailed", "ListenerClosed"}

\* the forwarder has left its loop, or will on its next receive
Stopping(i) ==
  \/ fwd[i].pc = "exit"
  \/ fwd[i].pc = "recv" /\ subs[i].closed /\ subs[i].queue = <<>>

\* C26: when subscribeEvents returns an error, no bus subscriber and no
\* forwarder goroutine created by that call remains registered or running.
C26_FailedCallLeavesNothing ==
  SubscribeFailed => \A i \in 1..Len(subs) : subs[i].closed /\ Stopping(i)

\* the subscribers of a failed call are all closed
C26_FailedCallLeavesNoSubscriber ==
  SubscribeFailed => \A i \in 1..Len(subs) : subs[i].closed

====
